---- MODULE Spec2Model ----
(***************************************************************************)
(* The player account / progress API of src/app.js (the session-enabled    *)
(* application, lines 287-722): the players table, the express-session     *)
(* store, and the request handlers, each split at the awaits where other   *)
(* requests can interleave.                                                *)
(*                                                                         *)
(* A JavaScript value that may be undefined (a request field) or null (a   *)
(* nullable column) is a sequence: << >> is undefined/null, <<v>> is v.    *)
(***************************************************************************)
EXTENDS Integers, Sequences, FiniteSets, TLC

\* ---------------------------------------------------------------- bounds
MaxId == 2      \* ids the autoIncrement sequence hands out
MaxSid == 2     \* sessions the store ever saves
MaxCoins == 1   \* |points| and |coins| a reward may reach
MaxDelta == 1   \* |points| and |coins| a request may carry

\* ---------------------------------------------------------------- values
Undefined == << >>
Null == << >>
Some(v) == <<v>>
Val(a) == a[1]

\* username: DataTypes.STRING(100)
UsernameMaxLen == 100
LongName ==
    "aaaaaaaaaabbbbbbbbbbccccccccccddddddddddeeeeeeeeeeffffffffffgggggggggghhhhhhhhhhiiiiiiiiiijjjjjjjjjjk"
Usernames == {"ann", "bob"}

\* Passwords are sequences of bytes; the empty sequence is the empty string.
Passwords == {<<1>>, <<2>>}

Maybe(S) == {Undefined} \cup {Some(v) : v \in S}
IntArgs == Maybe(-MaxDelta..MaxDelta)

\* !x for a string field: undefined and "" are falsy.
FalsyStr(a) == a = Undefined \/ Val(a) = ""
\* !x for a password field: undefined and the empty string are falsy.
FalsyPw(a) == a = Undefined \/ Val(a) = << >>
\* x || 0 for an integer field.
OrZero(a) == IF a = Undefined THEN 0 ELSE Val(a)

\* validate: { isEmail: true } of the email column.
isEmail(s) == s \in {"a@x.io", "b@x.io"}

\* ---------------------------------------------------------------- bcrypt
\* bcryptjs hashes at most the first 72 bytes of the password.
BcryptMaxLen == 72
Truncate(pw) == IF Len(pw) > BcryptMaxLen THEN SubSeq(pw, 1, BcryptMaxLen) ELSE pw
Digest(pw, salt) == <<salt, Truncate(pw)>>
\* bcrypt.hash(password, 10): the salt is drawn anew for every call.
Hash(pw, salt) == [salt |-> salt, digest |-> Digest(pw, salt)]
\* bcrypt.compare(password, hash): re-hash with the stored salt and compare.
Compare(pw, h) == Digest(pw, h.salt) = h.digest

\* ---------------------------------------------------------------- state
VARIABLES
    players,         \* the players table: id -> row
    nextId,          \* the autoIncrement sequence of players.id
    hasLevelsColumn, \* whether the table has the unlocked_levels column, which
                     \* the Player model does not declare and sync() does not add
    store,           \* the session store: session id -> req.session.user
    nextSid,         \* the next fresh session id
    reqs,            \* the requests suspended at an await
    res              \* the response sent last

vars == <<players, nextId, hasLevelsColumn, store, nextSid, reqs, res>>

Project(row, attributes) == [f \in attributes |-> row[f]]

\* The row Player.create inserts: the supplied fields plus the column defaults.
NewRow(id, username, hashedPassword, email) ==
    [id |-> id,
     username |-> username,
     email |-> email,
     display_name |-> Null,
     theme |-> "system",
     avatar |-> Null,
     points |-> 0,
     coins |-> 0,
     networking_completed |-> FALSE,
     programming_completed |-> FALSE,
     systemunit_completed |-> FALSE,
     networking_hard_perfect |-> FALSE,
     programming_game_unlocked |-> FALSE,
     progress |-> Null,
     password |-> hashedPassword]

\* Player.findOne({ where: { username } })
FindByUsername(u) ==
    IF \E i \in DOMAIN players : players[i].username = u
    THEN Some(players[CHOOSE i \in DOMAIN players : players[i].username = u])
    ELSE Null

\* Player.findOne({ where: { id } })
FindById(i) == IF i \in DOMAIN players THEN Some(players[i]) ELSE Null

Overwrite(row, changes) ==
    [f \in DOMAIN row |-> IF f \in DOMAIN changes THEN changes[f] ELSE row[f]]

\* UPDATE players SET <changes> WHERE id = i: no such row, no effect.
UpdateById(i, changes) ==
    IF i \in DOMAIN players
    THEN [players EXCEPT ![i] = Overwrite(players[i], changes)]
    ELSE players

\* The WHERE clause left out: every row is written.
UpdateEveryRow(u, changes) == [i \in DOMAIN players |-> Overwrite(players[i], changes)]
\* UPDATE players SET <changes> WHERE username = u
UpdateByUsername(u, changes) ==
    [i \in DOMAIN players |->
        IF players[i].username = u THEN Overwrite(players[i], changes) ELSE players[i]]

\* DELETE FROM players WHERE id = i
DeleteById(i) == [j \in DOMAIN players \ {i} |-> players[j]]

\* instance.update(values): the fields written are the keys of `values`, and no
\* query is sent when no value differs from the one that was read.
Written(before, after, fields) ==
    IF \A f \in fields : after[f] = before[f] THEN << >> ELSE Project(after, fields)

\* The instance changed in memory and never saved.
ChangedNothing(before, after, fields) == << >>
\* instance.save(): the fields written are those whose value was changed.
Changed(before, after, fields) ==
    Project(after, {f \in fields : after[f] # before[f]})

\* ---------------------------------------------------------------- requests
(***************************************************************************)
(* A request that awaits is held in reqs[r] with the handler's locals: its *)
(* session (sid and the user loaded from the store when it arrived) and    *)
(* the Player instance it read.  A field of the request body is drawn at   *)
(* the step that first reads it.  Every action takes `in`, the sets its    *)
(* inputs are drawn from.                                                  *)
(***************************************************************************)
Idle == [pc |-> "idle"]
Free(r) == reqs[r].pc = "idle"

\* res.status(status).json(body) of route `op`.
Respond(op, status, body) == res' = [op |-> op, status |-> status, body |-> body]

\* The request r is suspended at its next await.
Suspend(r, state) == reqs' = [reqs EXCEPT ![r] = state]
\* The request r has responded.
Finish(r) == reqs' = [reqs EXCEPT ![r] = Idle]

AllReqs == {"r1", "r2"}

Init ==
    /\ players = << >>
    /\ nextId = 1
    /\ hasLevelsColumn \in BOOLEAN
    /\ store = << >>
    /\ nextSid = 1
    /\ reqs = [r \in AllReqs |-> Idle]
    /\ res = [op |-> "none", status |-> 0, body |-> << >>]

\* The table as sequelize.sync() creates it from the Player model.
DeclaredInit == Init /\ ~hasLevelsColumn

\* ---------------------------------------------------------------- POST /create-player
\* The unique index dropped from the table.
UniqueViolationNever(username) == FALSE
\* username: { unique: true }: the INSERT of a username some row has is rejected.
UniqueViolation(username) == \E i \in DOMAIN players : players[i].username = username

\* await Player.create({ username, password: hashedPassword, email }), then
\* the response.
PlayerCreate(username, hashedPassword, email) ==
    IF email # Undefined /\ ~isEmail(Val(email))
    THEN \* the validation error is thrown before the INSERT is sent
         /\ Respond("create-player", 500, [error |-> "Failed to create player"])
         /\ UNCHANGED <<players, nextId>>
    ELSE IF Len(username) > UsernameMaxLen
    THEN \* value too long for type character varying(100)
         /\ Respond("create-player", 500, [error |-> "Failed to create player"])
         /\ UNCHANGED <<players, nextId>>
    ELSE /\ nextId <= MaxId
         /\ nextId' = nextId + 1
         /\ IF UniqueViolation(username)
            THEN \* the INSERT is rejected, its id is spent
                 /\ Respond("create-player", 500, [error |-> "Failed to create player"])
                 /\ UNCHANGED players
            ELSE LET row == NewRow(nextId, username, hashedPassword, email)
                 IN /\ players' = (nextId :> row) @@ players
                    /\ Respond("create-player", 200, [success |-> TRUE, player |-> row])

\* The whole handler, when no other request runs between its two awaits.
PostCreatePlayer(username, password, email, salt) ==
    /\ IF FalsyStr(username) \/ FalsyPw(password)
       THEN /\ Respond("create-player", 400, [error |-> "Username and password are required"])
            /\ UNCHANGED <<players, nextId>>
       ELSE PlayerCreate(Val(username), Hash(Val(password), salt), email)
    /\ UNCHANGED <<hasLevelsColumn, store, nextSid, reqs>>

CreatePlayer(in) ==
    \E username \in in.usernames, password \in in.passwords, email \in in.emails,
       salt \in in.salts : PostCreatePlayer(username, password, email, salt)

\* The handler split at its awaits: up to await bcrypt.hash(password, 10) ...
CreateHash(r, username, password, email, salt) ==
    /\ Free(r)
    /\ IF FalsyStr(username) \/ FalsyPw(password)
       THEN /\ Respond("create-player", 400, [error |-> "Username and password are required"])
            /\ UNCHANGED reqs
       ELSE /\ Suspend(r, [pc |-> "create-player:insert", username |-> Val(username),
                           password |-> Hash(Val(password), salt), email |-> email])
            /\ UNCHANGED res
    /\ UNCHANGED <<players, nextId, hasLevelsColumn, store, nextSid>>

CreateBegin(in) ==
    \E r \in in.reqs, username \in in.usernames, password \in in.passwords,
       email \in in.emails, salt \in in.salts : CreateHash(r, username, password, email, salt)

\* ... and from await Player.create(...) on.
CreateInsert(r) ==
    /\ reqs[r].pc = "create-player:insert"
    /\ PlayerCreate(reqs[r].username, reqs[r].password, reqs[r].email)
    /\ Finish(r)
    /\ UNCHANGED <<hasLevelsColumn, store, nextSid>>

\* ---------------------------------------------------------------- POST /api/reward
InRange(n) == -MaxCoins <= n /\ n <= MaxCoins

\* The check written one off: a balance of -1 passes.
NotEnoughCoinsOffByOne(newCoins) == newCoins < -1
\* if (newCoins < 0)
NotEnoughCoins(newCoins) == newCoins < 0

\* The handler up to its await of player.save().
PostReward(r, username, points, coins) ==
    /\ Free(r)
    /\ IF FalsyStr(username)
       THEN /\ Respond("reward", 400, [error |-> "Username is required"])
            /\ UNCHANGED reqs
       ELSE IF FindByUsername(Val(username)) = Null
       THEN /\ Respond("reward", 404, [error |-> "Player not found"])
            /\ UNCHANGED reqs
       ELSE LET player == Val(FindByUsername(Val(username)))
                newCoins == player.coins + OrZero(coins)
                newPoints == player.points + OrZero(points)
            IN IF NotEnoughCoins(newCoins)
               THEN /\ Respond("reward", 400, [error |-> "Not enough coins"])
                    /\ UNCHANGED reqs
               ELSE /\ InRange(newCoins) /\ InRange(newPoints)
                    /\ Suspend(r, [pc |-> "reward:save", read |-> player,
                                   player |-> [player EXCEPT !.points = newPoints,
                                                             !.coins = newCoins]])
                    /\ UNCHANGED res
    /\ UNCHANGED <<players, nextId, hasLevelsColumn, store, nextSid>>

RewardFind(in) ==
    \E r \in in.reqs, username \in in.usernames, points \in in.ints, coins \in in.ints :
        PostReward(r, username, points, coins)

\* await player.save(), then the response.
RewardSave(r) ==
    /\ reqs[r].pc = "reward:save"
    /\ players' = UpdateById(reqs[r].player.id,
                             Changed(reqs[r].read, reqs[r].player, {"points", "coins"}))
    /\ Respond("reward", 200,
               [success |-> TRUE, message |-> "Reward applied", player |-> reqs[r].player])
    /\ Finish(r)
    /\ UNCHANGED <<nextId, hasLevelsColumn, store, nextSid>>

\* ---------------------------------------------------------------- POST /update-coins
\* The handler looking the player up first, as reward does.
PostUpdateCoinsFound(username, coins) ==
    /\ IF FalsyStr(username)
       THEN /\ Respond("update-coins", 400, [error |-> "Username required"])
            /\ UNCHANGED players
       ELSE IF FindByUsername(Val(username)) = Null
       THEN /\ Respond("update-coins", 404, [error |-> "Player not found"])
            /\ UNCHANGED players
       ELSE IF coins = Undefined
       THEN /\ Respond("update-coins", 500, [error |-> "Failed to update coins"])
            /\ UNCHANGED players
       ELSE /\ players' = UpdateByUsername(Val(username), [coins |-> Val(coins)])
            /\ Respond("update-coins", 200, [success |-> TRUE, coins |-> Val(coins)])
    /\ UNCHANGED <<nextId, hasLevelsColumn, store, nextSid, reqs>>

PostUpdateCoins(username, coins) ==
    /\ IF FalsyStr(username)
       THEN /\ Respond("update-coins", 400, [error |-> "Username required"])
            /\ UNCHANGED players
       ELSE IF coins = Undefined
       THEN \* the named replacement :coins has no value
            /\ Respond("update-coins", 500, [error |-> "Failed to update coins"])
            /\ UNCHANGED players
       ELSE /\ players' = UpdateByUsername(Val(username), [coins |-> Val(coins)])
            /\ Respond("update-coins", 200, [success |-> TRUE, coins |-> Val(coins)])
    /\ UNCHANGED <<nextId, hasLevelsColumn, store, nextSid, reqs>>

UpdateCoins(in) ==
    \E username \in in.usernames, coins \in in.ints : PostUpdateCoins(username, coins)

\* ---------------------------------------------------------------- POST /update-progress
PostUpdateProgress(username, coins, unlockedLevels) ==
    /\ IF FalsyStr(username)
       THEN /\ Respond("update-progress", 400, [error |-> "Username required"])
            /\ UNCHANGED players
       ELSE IF coins = Undefined \/ unlockedLevels = Undefined \/ ~hasLevelsColumn
       THEN \* a named replacement has no value, or the column does not exist
            /\ Respond("update-progress", 500, [error |-> "Failed to update progress"])
            /\ UNCHANGED players
       ELSE \* unlocked_levels is a column no route reads: it is not part of the rows
            /\ players' = UpdateByUsername(Val(username), [coins |-> Val(coins)])
            /\ Respond("update-progress", 200, [success |-> TRUE])
    /\ UNCHANGED <<nextId, hasLevelsColumn, store, nextSid, reqs>>

UpdateProgress(in) ==
    \E username \in in.usernames, coins \in in.ints, unlockedLevels \in in.levels :
        PostUpdateProgress(username, coins, unlockedLevels)

\* ---------------------------------------------------------------- session middleware
(***************************************************************************)
(* express-session with its default in-memory store, resave: false and     *)
(* saveUninitialized: false.  A request carries a cookie `tok` (0: none).  *)
(* The session of a stored id is loaded as the request's own copy; any     *)
(* other cookie gets a new session (sid 0 until it is saved) without user. *)
(***************************************************************************)
Tokens == 0..(nextSid - 1)
LoadSid(tok) == IF tok \in DOMAIN store THEN tok ELSE 0
LoadUser(tok) == IF tok \in DOMAIN store THEN Some(store[tok]) ELSE Undefined

\* The guard calling next() without looking at the session.
isAuthenticatedAlways(user) == TRUE
\* function isAuthenticated(req, res, next): req.session.user is truthy.
isAuthenticated(user) == user # Undefined

\* A gated route: the session is loaded, isAuthenticated runs, and the
\* handler `op` is entered or the request ends with 401.
Gate(r, tok, op) ==
    /\ Free(r)
    /\ IF isAuthenticated(LoadUser(tok))
       THEN /\ Suspend(r, [pc |-> op, sid |-> LoadSid(tok), user |-> LoadUser(tok)])
            /\ UNCHANGED res
       ELSE /\ Respond(op, 401, [error |-> "Not authenticated"])
            /\ UNCHANGED reqs
    /\ UNCHANGED <<players, nextId, hasLevelsColumn, store, nextSid>>

GatedOps ==
    {"current-user", "update-profile", "upload-avatar", "change-password",
     "delete-account", "logout-others"}

Arrive(in) == \E r \in in.reqs, tok \in Tokens, op \in in.gated : Gate(r, tok, op)

\* The user assigned after the response has ended: nothing is written back.
SaveSessionSkipped(sid, loaded, user) == UNCHANGED <<store, nextSid>>

\* The session is written back when the response ends: a session whose
\* user differs from the one loaded is saved under its id (a new id for a
\* new session), also when that id was destroyed in the meantime; an
\* unmodified session is only touched, which does nothing to a missing id.
SaveSession(sid, loaded, user) ==
    IF sid = 0
    THEN /\ nextSid <= MaxSid
         /\ store' = (nextSid :> user) @@ store
         /\ nextSid' = nextSid + 1
    ELSE /\ store' = IF loaded = Some(user) THEN store ELSE (sid :> user) @@ store
         /\ UNCHANGED nextSid

\* req.session.destroy()
DestroySession(sid) == [s \in DOMAIN store \ {sid} |-> store[s]]

\* ---------------------------------------------------------------- POST /login
LoginArrive(in) ==
    \E r \in in.reqs, tok \in Tokens :
        /\ Free(r)
        /\ Suspend(r, [pc |-> "login", sid |-> LoadSid(tok), user |-> LoadUser(tok)])
        /\ UNCHANGED <<players, nextId, hasLevelsColumn, store, nextSid, res>>

\* await Player.findOne({ where: { username } })
PostLogin(r, username) ==
    /\ reqs[r].pc = "login"
    /\ IF username = Undefined
       THEN \* WHERE parameter "username" has invalid "undefined" value
            /\ Respond("login", 500, [success |-> FALSE, error |-> "Failed to login"])
            /\ Finish(r)
       ELSE IF FindByUsername(Val(username)) = Null
       THEN /\ Respond("login", 404, [success |-> FALSE, message |-> "Player not found"])
            /\ Finish(r)
       ELSE /\ Suspend(r, [pc |-> "login:compare", sid |-> reqs[r].sid,
                           user |-> reqs[r].user,
                           player |-> Val(FindByUsername(Val(username)))])
            /\ UNCHANGED res
    /\ UNCHANGED <<players, nextId, hasLevelsColumn, store, nextSid>>

LoginFind(in) == \E r \in in.reqs, username \in in.usernames : PostLogin(r, username)

\* The result of the comparison ignored.
validPasswordAlways(password, player) == TRUE
\* const validPassword = await bcrypt.compare(password, player.password)
validPassword(password, player) == Compare(password, player.password)

\* req.session.user = { id: player.id, username: player.username }
SessionUser(player) == [id |-> player.id, username |-> player.username]

\* await bcrypt.compare(password, player.password), then the session and the response.
PostLoginCompare(r, password) ==
    /\ reqs[r].pc = "login:compare"
    /\ LET player == reqs[r].player IN
       IF password = Undefined
       THEN \* Illegal arguments: undefined, string
            /\ Respond("login", 500, [success |-> FALSE, error |-> "Failed to login"])
            /\ UNCHANGED <<store, nextSid>>
       ELSE IF ~validPassword(Val(password), player)
       THEN /\ Respond("login", 401, [success |-> FALSE, message |-> "Invalid password"])
            /\ UNCHANGED <<store, nextSid>>
       ELSE /\ SaveSession(reqs[r].sid, reqs[r].user, SessionUser(player))
            /\ Respond("login", 200,
                       [success |-> TRUE,
                        player |-> [id |-> player.id, username |-> player.username]])
    /\ Finish(r)
    /\ UNCHANGED <<players, nextId, hasLevelsColumn>>

LoginCompare(in) == \E r \in in.reqs, password \in in.passwords : PostLoginCompare(r, password)

\* ---------------------------------------------------------------- GET /api/current-user
CurrentUserAttributes ==
    {"id", "username", "email", "display_name", "theme", "avatar", "points", "coins"}

\* The message of the handler's catch block.
Failed(op) ==
    CASE op = "current-user" -> "Failed to fetch user data"
      [] op = "update-profile" -> "Failed to update profile"
      [] op = "upload-avatar" -> "Failed to upload avatar"
      [] op = "change-password" -> "Failed to change password"
      [] op = "delete-account" -> "Failed to delete account"
      [] OTHER -> "Failed to logout other sessions"

\* The row looked up by the session's username instead of its id.
FindOwnByName(r) ==
    IF reqs[r].user = Undefined THEN Undefined
    ELSE FindByUsername(Val(reqs[r].user).username)

\* The first await of a gated handler:
\* Player.findOne({ where: { id: req.session.user.id } }).
\* Reading .id of an undefined user throws into the handler's catch block.
FindOwn(r) ==
    IF reqs[r].user = Undefined THEN Undefined ELSE FindById(Val(reqs[r].user).id)

CurrentUser(r) ==
    /\ reqs[r].pc = "current-user"
    /\ IF reqs[r].user = Undefined
       THEN Respond("current-user", 500, [error |-> Failed("current-user")])
       ELSE IF FindOwn(r) = Null
       THEN Respond("current-user", 404, [error |-> "User not found"])
       ELSE Respond("current-user", 200, Project(Val(FindOwn(r)), CurrentUserAttributes))
    /\ Finish(r)
    /\ UNCHANGED <<players, nextId, hasLevelsColumn, store, nextSid>>

Find(r, op) ==
    /\ reqs[r].pc = op
    /\ IF reqs[r].user = Undefined
       THEN /\ Respond(op, 500, [error |-> Failed(op)])
            /\ Finish(r)
       ELSE IF FindOwn(r) = Null
       THEN /\ Respond(op, 404, [error |-> "User not found"])
            /\ Finish(r)
       ELSE /\ Suspend(r, [pc |-> op \o ":found", sid |-> reqs[r].sid, user |-> reqs[r].user,
                           player |-> Val(FindOwn(r))])
            /\ UNCHANGED res
    /\ UNCHANGED <<players, nextId, hasLevelsColumn, store, nextSid>>

\* ---------------------------------------------------------------- POST /api/update-profile
UpdateProfileFind(r) == Find(r, "update-profile")

\* The fallback to the stored value left out.
OrElseSupplied(x, y) == x
\* x || y for a nullable string column y.
OrElse(x, y) == IF FalsyStr(x) THEN y ELSE x

PostUpdateProfile(r, email, displayName, theme, avatar) ==
    /\ reqs[r].pc = "update-profile:found"
    /\ LET player == reqs[r].player
           after == [player EXCEPT !.email = OrElse(email, player.email),
                                   !.display_name = OrElse(displayName, player.display_name),
                                   !.theme = IF FalsyStr(theme) THEN player.theme ELSE Val(theme),
                                   !.avatar = OrElse(avatar, player.avatar)]
       IN IF after.email # Null /\ ~isEmail(Val(after.email))
          THEN \* the validation error is thrown before the UPDATE is sent
               /\ Respond("update-profile", 500, [error |-> "Failed to update profile"])
               /\ UNCHANGED players
          ELSE /\ players' = UpdateById(player.id,
                                 Written(player, after,
                                         {"email", "display_name", "theme", "avatar"}))
               /\ Respond("update-profile", 200,
                          [success |-> TRUE, message |-> "Profile updated successfully"])
    /\ Finish(r)
    /\ UNCHANGED <<nextId, hasLevelsColumn, store, nextSid>>

UpdateProfileUpdate(in) ==
    \E r \in in.reqs, email \in in.emails, displayName \in in.displayNames,
       theme \in in.themes, avatar \in in.avatars :
        PostUpdateProfile(r, email, displayName, theme, avatar)

\* ---------------------------------------------------------------- POST /api/upload-avatar
UploadAvatarFind(r) == Find(r, "upload-avatar")

\* player.update({ avatar }): an undefined value is dropped from the update.
PostUploadAvatar(r, avatar) ==
    /\ reqs[r].pc = "upload-avatar:found"
    /\ LET player == reqs[r].player IN
       players' = IF avatar = Undefined THEN players
                  ELSE UpdateById(player.id,
                           Written(player, [player EXCEPT !.avatar = avatar], {"avatar"}))
    /\ Respond("upload-avatar", 200,
               [success |-> TRUE, message |-> "Avatar uploaded successfully"])
    /\ Finish(r)
    /\ UNCHANGED <<nextId, hasLevelsColumn, store, nextSid>>

UploadAvatarUpdate(in) == \E r \in in.reqs, avatar \in in.avatars : PostUploadAvatar(r, avatar)

\* ---------------------------------------------------------------- POST /api/change-password
ChangePasswordFind(r) == Find(r, "change-password")

\* The result of the comparison ignored.
isMatchAlways(currentPassword, player) == TRUE
\* const isMatch = await bcrypt.compare(currentPassword, player.password)
isMatch(currentPassword, player) == Compare(currentPassword, player.password)

PostChangePassword(r, currentPassword, newPassword, salt) ==
    /\ reqs[r].pc = "change-password:found"
    /\ LET player == reqs[r].player IN
       IF currentPassword = Undefined
       THEN \* Illegal arguments: undefined, string
            /\ Respond("change-password", 500, [error |-> "Failed to change password"])
            /\ UNCHANGED players
       ELSE IF ~isMatch(Val(currentPassword), player)
       THEN /\ Respond("change-password", 401, [error |-> "Current password is incorrect"])
            /\ UNCHANGED players
       ELSE IF newPassword = Undefined
       THEN \* Illegal arguments: undefined, number
            /\ Respond("change-password", 500, [error |-> "Failed to change password"])
            /\ UNCHANGED players
       ELSE /\ players' = UpdateById(player.id,
                              Written(player,
                                      [player EXCEPT !.password = Hash(Val(newPassword), salt)],
                                      {"password"}))
            /\ Respond("change-password", 200,
                       [success |-> TRUE, message |-> "Password changed successfully"])
    /\ Finish(r)
    /\ UNCHANGED <<nextId, hasLevelsColumn, store, nextSid>>

ChangePasswordUpdate(in) ==
    \E r \in in.reqs, currentPassword \in in.passwords, newPassword \in in.passwords,
       salt \in in.salts : PostChangePassword(r, currentPassword, newPassword, salt)

\* ---------------------------------------------------------------- POST /api/delete-account
DeleteAccountFind(r) == Find(r, "delete-account")

\* await player.destroy()
DeleteAccountDestroy(r) ==
    /\ reqs[r].pc = "delete-account:found"
    /\ players' = DeleteById(reqs[r].player.id)
    /\ Suspend(r, [pc |-> "delete-account:destroyed", sid |-> reqs[r].sid,
                   user |-> reqs[r].user, player |-> reqs[r].player])
    /\ UNCHANGED <<nextId, hasLevelsColumn, store, nextSid, res>>

\* req.session.destroy(), then the response.
DeleteAccountSession(r) ==
    /\ reqs[r].pc = "delete-account:destroyed"
    /\ store' = DestroySession(reqs[r].sid)
    /\ Respond("delete-account", 200,
               [success |-> TRUE, message |-> "Account deleted successfully"])
    /\ Finish(r)
    /\ UNCHANGED <<players, nextId, hasLevelsColumn, nextSid>>

\* ---------------------------------------------------------------- POST /api/logout-others
\* The stub filled in: the account's other sessions are destroyed.
LogoutOthersDestroys(r) ==
    /\ reqs[r].pc = "logout-others"
    /\ store' = [s \in {t \in DOMAIN store :
                          t = reqs[r].sid \/ store[t].id # Val(reqs[r].user).id} |-> store[s]]
    /\ Respond("logout-others", 200,
               [success |-> TRUE, message |-> "Other sessions logged out"])
    /\ Finish(r)
    /\ UNCHANGED <<players, nextId, hasLevelsColumn, nextSid>>

LogoutOthers(r) ==
    /\ reqs[r].pc = "logout-others"
    /\ Respond("logout-others", 200,
               [success |-> TRUE, message |-> "Other sessions logged out"])
    /\ Finish(r)
    /\ UNCHANGED <<players, nextId, hasLevelsColumn, store, nextSid>>

\* ---------------------------------------------------------------- specifications
\* The reward and coin routes, one request at a time.
GameInputs ==
    [reqs |-> {"r1"},
     usernames |-> Maybe(Usernames),
     passwords |-> {Undefined, Some(<<1>>)},
     emails |-> {Undefined},
     salts |-> {1},
     ints |-> IntArgs,
     levels |-> Maybe({<<1, 2>>})]

GameNext ==
    \/ CreatePlayer(GameInputs)
    \/ RewardFind(GameInputs)
    \/ \E r \in AllReqs : RewardSave(r)
    \/ UpdateCoins(GameInputs)
    \/ UpdateProgress(GameInputs)

GameSpec == Init /\ [][GameNext]_vars

\* Rewards of two requests in flight together.
RaceInputs ==
    [reqs |-> AllReqs,
     usernames |-> {Some(u) : u \in Usernames},
     passwords |-> {Some(<<1>>)},
     emails |-> {Undefined},
     salts |-> {1},
     ints |-> Maybe({-1, 1})]

RaceNext ==
    \/ CreatePlayer(RaceInputs)
    \/ RewardFind(RaceInputs)
    \/ \E r \in AllReqs : RewardSave(r)

RaceSpec == DeclaredInit /\ [][RaceNext]_vars

\* Accounts and sessions, one request at a time.
AuthInputs ==
    [reqs |-> {"r1"},
     usernames |-> Maybe(Usernames \cup {"", LongName}),
     passwords |-> Maybe(Passwords \cup {<< >>}),
     emails |-> {Undefined},
     displayNames |-> {Undefined},
     themes |-> {Undefined},
     avatars |-> {Undefined},
     salts |-> {1},
     gated |-> GatedOps]

AuthNext ==
    \/ CreatePlayer(AuthInputs)
    \/ LoginArrive(AuthInputs)
    \/ LoginFind(AuthInputs)
    \/ LoginCompare(AuthInputs)
    \/ Arrive(AuthInputs)
    \/ \E r \in AllReqs : CurrentUser(r)
    \/ \E r \in AllReqs : UpdateProfileFind(r)
    \/ UpdateProfileUpdate(AuthInputs)
    \/ \E r \in AllReqs : UploadAvatarFind(r)
    \/ UploadAvatarUpdate(AuthInputs)
    \/ \E r \in AllReqs : ChangePasswordFind(r)
    \/ ChangePasswordUpdate(AuthInputs)
    \/ \E r \in AllReqs : DeleteAccountFind(r)
    \/ \E r \in AllReqs : DeleteAccountDestroy(r)
    \/ \E r \in AllReqs : DeleteAccountSession(r)
    \/ \E r \in AllReqs : LogoutOthers(r)

AuthSpec == DeclaredInit /\ [][AuthNext]_vars

\* A login and an account deletion in flight together.
SessionRaceInputs ==
    [reqs |-> AllReqs,
     usernames |-> {Some(u) : u \in Usernames},
     passwords |-> {Some(<<1>>)},
     emails |-> {Undefined},
     salts |-> {1},
     gated |-> {"delete-account"}]

SessionRaceNext ==
    \/ CreatePlayer(SessionRaceInputs)
    \/ LoginArrive(SessionRaceInputs)
    \/ LoginFind(SessionRaceInputs)
    \/ LoginCompare(SessionRaceInputs)
    \/ Arrive(SessionRaceInputs)
    \/ \E r \in AllReqs : DeleteAccountFind(r)
    \/ \E r \in AllReqs : DeleteAccountDestroy(r)
    \/ \E r \in AllReqs : DeleteAccountSession(r)

SessionRaceSpec == DeclaredInit /\ [][SessionRaceNext]_vars

\* The profile routes with values in every field, one request at a time.
ProfileInputs ==
    [reqs |-> {"r1"},
     usernames |-> {Some(u) : u \in Usernames},
     passwords |-> {Some(<<1>>)},
     emails |-> Maybe({"a@x.io", "bad", ""}),
     displayNames |-> Maybe({"Ann"}),
     themes |-> Maybe({"dark", ""}),
     avatars |-> Maybe({"pic"}),
     salts |-> {1},
     gated |-> {"update-profile", "upload-avatar"}]

\* Only the first account logs in.
ProfileLogins == [ProfileInputs EXCEPT !.usernames = {Some("ann")}]

ProfileNext ==
    \/ CreatePlayer(ProfileInputs)
    \/ LoginArrive(ProfileInputs)
    \/ LoginFind(ProfileLogins)
    \/ LoginCompare(ProfileInputs)
    \/ Arrive(ProfileInputs)
    \/ \E r \in AllReqs : UpdateProfileFind(r)
    \/ UpdateProfileUpdate(ProfileInputs)
    \/ \E r \in AllReqs : UploadAvatarFind(r)
    \/ UploadAvatarUpdate(ProfileInputs)

ProfileSpec == DeclaredInit /\ [][ProfileNext]_vars

\* Password changes, one request at a time.  Two of the passwords are longer
\* than bcrypt reads and differ in their last byte only.
Long(b) == [i \in 1..(BcryptMaxLen + 1) |-> IF i <= BcryptMaxLen THEN 1 ELSE b]

PasswordInputs ==
    [reqs |-> {"r1"},
     usernames |-> {Some("ann")},
     passwords |-> Maybe({<<1>>, <<2>>, << >>, Long(1), Long(2)}),
     emails |-> {Undefined},
     salts |-> {1},
     gated |-> {"change-password"}]

\* Accounts are created with the first password.
PasswordCreates ==
    [PasswordInputs EXCEPT !.passwords = {Some(<<1>>)},
                           !.usernames = {Some(u) : u \in Usernames}]

PasswordNext ==
    \/ CreatePlayer(PasswordCreates)
    \/ LoginArrive(PasswordInputs)
    \/ LoginFind(PasswordInputs)
    \/ LoginCompare(PasswordInputs)
    \/ Arrive(PasswordInputs)
    \/ \E r \in AllReqs : ChangePasswordFind(r)
    \/ ChangePasswordUpdate(PasswordInputs)

PasswordSpec == DeclaredInit /\ [][PasswordNext]_vars

\* Accounts created by two requests in flight together, among the routes
\* that write rows by username.
CreateRaceInputs ==
    [reqs |-> AllReqs,
     usernames |-> Maybe(Usernames),
     passwords |-> {Some(<<1>>)},
     emails |-> {Undefined},
     salts |-> {1},
     ints |-> {Some(1)}]

CreateRaceNext ==
    \/ CreateBegin(CreateRaceInputs)
    \/ \E r \in AllReqs : CreateInsert(r)
    \/ RewardFind(CreateRaceInputs)
    \/ \E r \in AllReqs : RewardSave(r)
    \/ UpdateCoins(CreateRaceInputs)

CreateRaceSpec == DeclaredInit /\ [][CreateRaceNext]_vars

\* ---------------------------------------------------------------- properties
Rows(u) == {i \in DOMAIN players : players[i].username = u}
Taken(u) == Rows(u) # {}
UserOf(player) == [id |-> player.id, username |-> player.username]

\* The password field is in a response body, at the top or in its player.
ContainsPassword(body) ==
    \/ "password" \in DOMAIN body
    \/ /\ "player" \in DOMAIN body
       /\ "password" \in DOMAIN body.player

\* C1: in every reachable state every player row has coins >= 0.
C1_CoinsNeverNegative == \A i \in DOMAIN players : players[i].coins >= 0

\* Every step of the action A from the current state ends in a state where Q holds.
Ensures(A, Q) == ~ENABLED (A /\ ~Q)

\* C2: a reward for an existing player whose coins plus the coins delta is
\* negative is answered 400 "Not enough coins" and changes neither points nor
\* coins of any row, whatever points delta it carries; the handler is left.
C2_RewardRejected ==
    \A r \in AllReqs, u \in Usernames, coins \in IntArgs :
        (/\ Taken(u)
         /\ Val(FindByUsername(u)).coins + OrZero(coins) < 0)
        => \A points \in IntArgs :
            Ensures(PostReward(r, Some(u), points, coins),
                    /\ res' = [op |-> "reward", status |-> 400,
                               body |-> [error |-> "Not enough coins"]]
                    /\ players' = players
                    /\ reqs' = reqs)

\* C2 witness: the only account has coins 0 and a reward was just refused.
C2_Witness ==
    /\ res = [op |-> "reward", status |-> 400, body |-> [error |-> "Not enough coins"]]
    /\ \E i \in DOMAIN players : DOMAIN players = {i} /\ players[i].coins = 0

\* C3: a reward's read-modify-write is atomic: its save adds the request's
\* deltas to the points and coins the row holds at that moment, so that the
\* deltas of two rewards in flight together both show in the final row.
C3_RewardAtomic ==
    [][\A r \in AllReqs :
        RewardSave(r) =>
            LET id == reqs[r].player.id IN
            /\ players'[id].points =
                   players[id].points + (reqs[r].player.points - reqs[r].read.points)
            /\ players'[id].coins =
                   players[id].coins + (reqs[r].player.coins - reqs[r].read.coins)]_vars

\* C4: when delete-account has answered, no session of the store is bound to
\* the id of the deleted account.
C4_DeleteEndsAllSessions ==
    [][\A r \in AllReqs :
        DeleteAccountSession(r) =>
            \A s \in DOMAIN store' : store'[s].id # reqs[r].player.id]_vars

\* C5: a session id that was saved and is no longer in the store (it was
\* destroyed by delete-account, the only route that destroys) is never in the
\* store again: every later request presenting it is anonymous.
C5_DestroyedStaysAnonymous ==
    [][\A s \in 1..(nextSid - 1) : s \notin DOMAIN store => s \notin DOMAIN store']_vars

\* C6: a gated request whose cookie names no stored session is answered 401
\* "Not authenticated"; the handler is not entered, and the table and the
\* session store are unchanged.
C6_Unauthenticated ==
    \A r \in AllReqs, tok \in 0..MaxSid, op \in GatedOps :
        tok \notin DOMAIN store
        => Ensures(Gate(r, tok, op),
                   /\ res' = [op |-> op, status |-> 401,
                              body |-> [error |-> "Not authenticated"]]
                   /\ reqs' = reqs
                   /\ players' = players
                   /\ store' = store /\ nextSid' = nextSid)

\* C6 witness: delete-account was just refused while another session is bound.
C6_Witness ==
    /\ res = [op |-> "delete-account", status |-> 401, body |-> [error |-> "Not authenticated"]]
    /\ DOMAIN store # {}
    /\ DOMAIN players # {}

\* The response of the catch block of create-player, sent for any failure
\* of the storage layer.
CreateInternalError ==
    [op |-> "create-player", status |-> 500, body |-> [error |-> "Failed to create player"]]

\* C7: a create-player for a taken username fails with an error other than
\* the storage-failure response, and one row with that username remains.
C7_DuplicateIsConflict ==
    [][\A u \in Usernames, password \in {Some(p) : p \in Passwords}, salt \in {1, 2} :
        (Taken(u) /\ PostCreatePlayer(Some(u), password, Undefined, salt))
        => /\ res'.op = "create-player"
           /\ res'.status # 200
           /\ res' # CreateInternalError
           /\ Cardinality({i \in DOMAIN players' : players'[i].username = u}) = 1]_vars

\* C8: no success response of the listed routes carries the password field.
C8_NoPasswordInResponse ==
    (/\ res.status = 200
     /\ res.op \in {"create-player", "login", "current-user", "update-profile",
                    "upload-avatar", "change-password", "delete-account", "reward",
                    "update-coins", "update-progress"})
    => ~ContainsPassword(res.body)

\* C9, the three steps of create-then-login.  create-player with a free name
\* of `names` answers 200 and stores a row under a new id whose password
\* verifies against the request's:
C9_Created(names) ==
    \A u \in names, p \in Passwords, salt \in {1, 2} :
        ~Taken(u)
        => Ensures(PostCreatePlayer(Some(u), Some(p), Undefined, salt),
                   /\ res'.op = "create-player" /\ res'.status = 200
                   /\ \E i \in DOMAIN players' \ DOMAIN players :
                        /\ players'[i].username = u
                        /\ Compare(p, players'[i].password)
                        /\ res'.body.player.id = i)

\* login with that username reads that row:
C9_Found ==
    \A r \in AllReqs, u \in Usernames :
        Taken(u)
        => Ensures(PostLogin(r, Some(u)),
                   /\ reqs'[r].pc = "login:compare"
                   /\ reqs'[r].player = players[CHOOSE i \in Rows(u) : TRUE])

\* and with a password that verifies it answers 200 with the row's id and
\* username, and the request's session is stored holding exactly these two.
C9_Bound ==
    \A r \in AllReqs, p \in Passwords :
        (/\ reqs[r].pc = "login:compare"
         /\ Compare(p, reqs[r].player.password))
        => Ensures(PostLoginCompare(r, Some(p)),
                   /\ res' = [op |-> "login", status |-> 200,
                              body |-> [success |-> TRUE,
                                        player |-> UserOf(reqs[r].player)]]
                   /\ LET sid == IF reqs[r].sid = 0 THEN nextSid ELSE reqs[r].sid
                      IN /\ sid \in DOMAIN store'
                         /\ store'[sid] = UserOf(reqs[r].player))

\* C9 as amended: for every non-empty username of at most 100 characters not
\* yet taken and every non-empty password, create-player then login succeeds
\* and binds a session holding exactly the id and username of the new account.
C9_CreateThenLogin == C9_Created(Usernames) /\ C9_Found /\ C9_Bound

\* C9 as claimed: the same for every non-empty username not yet taken.
C9_AnyUsername == C9_Created(Usernames \cup {LongName}) /\ C9_Found /\ C9_Bound

\* C9 witness: a login just succeeded and its session holds an existing row's
\* id and username.
C9_Witness ==
    /\ res.op = "login" /\ res.status = 200
    /\ \E s \in DOMAIN store :
        /\ store[s] = res.body.player
        /\ store[s].id \in DOMAIN players
        /\ players[store[s].id].username = store[s].username

\* C10: a login naming no row is answered 404, a login whose password does
\* not verify against the row's hash is answered 401, and both leave the
\* session store as it was: no session is added and none is rebound.
C10_LoginFailures ==
    /\ \A r \in AllReqs, u \in Usernames \cup {"", LongName} :
        ~Taken(u)
        => Ensures(PostLogin(r, Some(u)),
                   /\ res' = [op |-> "login", status |-> 404,
                              body |-> [success |-> FALSE, message |-> "Player not found"]]
                   /\ reqs'[r] = Idle
                   /\ store' = store /\ nextSid' = nextSid)
    /\ \A r \in AllReqs, p \in Passwords \cup {<< >>} :
        (/\ reqs[r].pc = "login:compare"
         /\ ~Compare(p, reqs[r].player.password))
        => Ensures(PostLoginCompare(r, Some(p)),
                   /\ res' = [op |-> "login", status |-> 401,
                              body |-> [success |-> FALSE, message |-> "Invalid password"]]
                   /\ reqs'[r] = Idle
                   /\ store' = store /\ nextSid' = nextSid)

\* C10 witness: a login was just refused for its password while a session is bound.
C10_Witness ==
    /\ res = [op |-> "login", status |-> 401,
              body |-> [success |-> FALSE, message |-> "Invalid password"]]
    /\ DOMAIN store # {}

\* The profile columns a request body supplies.
Supplied(email, displayName, theme, avatar) ==
    {f \in {"email", "display_name", "theme", "avatar"} :
        CASE f = "email" -> email # Undefined
          [] f = "display_name" -> displayName # Undefined
          [] f = "theme" -> theme # Undefined
          [] OTHER -> avatar # Undefined}

\* C11: an update-profile of an authenticated session changes no row but the
\* session's own, and in it no field but those the request supplies among
\* email, display_name, theme and avatar (so never username, password, points
\* or coins); when it answers 200 every supplied non-empty field holds the
\* supplied value.
C11_ProfileFrame ==
    \A r \in AllReqs :
        reqs[r].pc = "update-profile:found"
        => \A email \in Maybe({"b@x.io", "bad", ""}),
              displayName \in Maybe({"Bo", ""}),
              theme \in Maybe({"light", ""}),
              avatar \in Maybe({"new"}) :
            Ensures(PostUpdateProfile(r, email, displayName, theme, avatar),
                    LET id == Val(reqs[r].user).id IN
                    /\ DOMAIN players' = DOMAIN players
                    /\ id \in DOMAIN players
                    /\ \A i \in DOMAIN players \ {id} : players'[i] = players[i]
                    /\ \A f \in DOMAIN players[id] :
                        players'[id][f] # players[id][f]
                        => f \in Supplied(email, displayName, theme, avatar)
                    /\ res'.status = 200
                       => /\ ~FalsyStr(email) => players'[id].email = email
                          /\ ~FalsyStr(displayName) => players'[id].display_name = displayName
                          /\ ~FalsyStr(theme) => players'[id].theme = Val(theme)
                          /\ ~FalsyStr(avatar) => players'[id].avatar = avatar)

\* C11 witness: a profile update just succeeded on a row that has the theme
\* "dark" while its email, set at creation, and its empty avatar are in place,
\* and another row exists.
C11_Witness ==
    /\ res.op = "update-profile" /\ res.status = 200
    /\ Cardinality(DOMAIN players) = 2
    /\ \E i \in DOMAIN players :
        /\ players[i].theme = "dark"
        /\ players[i].email = Some("a@x.io")
        /\ players[i].avatar = Null
        /\ players[i].display_name = Null

\* The passwords a request may carry, the empty string among them.
AnyPasswords == {<<1>>, <<2>>, << >>, Long(1), Long(2)}

\* The bytes of a password that bcrypt reads.
Read72(p) == IF Len(p) > 72 THEN SubSeq(p, 1, 72) ELSE p

\* A login that has found its row answers 200 when the password verifies
\* against the row's hash and 401 when it does not.
C12_LoginAnswers ==
    \A r \in AllReqs, p \in AnyPasswords :
        reqs[r].pc = "login:compare"
        => Ensures(PostLoginCompare(r, Some(p)),
                   /\ res'.op = "login"
                   /\ res'.status = IF Compare(p, reqs[r].player.password) THEN 200 ELSE 401)

\* The passwords that differ from `new` in the bytes bcrypt reads.
DifferentPasswords(new) == {p \in AnyPasswords : Read72(p) # Read72(new)}

\* change-password answers 200 only when currentPassword verifies, and the
\* stored hash then verifies newPassword and not the passwords that must fail
\* (the old one when `oldFails`, else those that differ from the new one);
\* no other row changes.  When currentPassword does not verify it answers 401
\* and the table is unchanged.
C12_Change(oldFails) ==
    \A r \in AllReqs, cur \in AnyPasswords, new \in AnyPasswords, salt \in {1, 2} :
        reqs[r].pc = "change-password:found"
        => Ensures(PostChangePassword(r, Some(cur), Some(new), salt),
                   LET id == Val(reqs[r].user).id IN
                   /\ id \in DOMAIN players /\ DOMAIN players' = DOMAIN players
                   /\ IF Compare(cur, players[id].password)
                      THEN /\ res' = [op |-> "change-password", status |-> 200,
                                      body |-> [success |-> TRUE,
                                                message |-> "Password changed successfully"]]
                           /\ Compare(new, players'[id].password)
                           /\ \A p \in (IF oldFails THEN {cur} ELSE DifferentPasswords(new)) :
                                ~Compare(p, players'[id].password)
                           /\ \A i \in DOMAIN players \ {id} : players'[i] = players[i]
                      ELSE /\ res' = [op |-> "change-password", status |-> 401,
                                      body |-> [error |-> "Current password is incorrect"]]
                           /\ players' = players)

Delta(a) == IF a = Undefined THEN 0 ELSE a[1]

\* C13: a reward for an existing player whose resulting coins are >= 0 reads
\* the row and computes points + points delta and coins + coins delta (an
\* absent delta is 0, a negative points total is accepted) without writing;
\* its save, on a row no other request wrote since, stores exactly these two
\* values, leaves every other field of the row and every other row as they
\* were, and answers 200 with the row.
C13_RewardApplied ==
    /\ \A r \in AllReqs, u \in Usernames, points \in IntArgs, coins \in IntArgs :
        (/\ Taken(u)
         /\ players[CHOOSE i \in Rows(u) : TRUE].coins + Delta(coins) >= 0)
        => LET row == players[CHOOSE i \in Rows(u) : TRUE] IN
           Ensures(PostReward(r, Some(u), points, coins),
                   /\ players' = players
                   /\ reqs'[r] = [pc |-> "reward:save", read |-> row,
                                  player |-> [row EXCEPT !.points = row.points + Delta(points),
                                                         !.coins = row.coins + Delta(coins)]])
    /\ \A r \in AllReqs :
        (/\ reqs[r].pc = "reward:save"
         /\ reqs[r].read.id \in DOMAIN players
         /\ players[reqs[r].read.id] = reqs[r].read)
        => Ensures(RewardSave(r),
                   /\ players' = [players EXCEPT ![reqs[r].read.id] = reqs[r].player]
                   /\ res' = [op |-> "reward", status |-> 200,
                              body |-> [success |-> TRUE, message |-> "Reward applied",
                                        player |-> reqs[r].player]])

\* C13 witness: a reward just succeeded and left its row with points -1 and
\* coins 1, beside another row.
C13_Witness ==
    /\ res.op = "reward" /\ res.status = 200
    /\ Cardinality(DOMAIN players) = 2
    /\ \E i \in DOMAIN players :
        /\ players[i] = res.body.player
        /\ players[i].points = -1
        /\ players[i].coins = 1

\* C14: no two rows share a username, whatever the interleaving of the
\* create-player requests in flight, and no step of any route changes the
\* username of a row.
C14_UsernameUnique ==
    /\ \A i \in DOMAIN players, j \in DOMAIN players :
        players[i].username = players[j].username => i = j
    /\ Ensures(CreateRaceNext,
               \A i \in DOMAIN players :
                   i \in DOMAIN players' /\ players'[i].username = players[i].username)

\* C14 witness: the later of two creates of one username was just rejected:
\* its id is spent and the one row remains.
C14_Witness ==
    /\ res = [op |-> "create-player", status |-> 500,
              body |-> [error |-> "Failed to create player"]]
    /\ Cardinality(DOMAIN players) = 1
    /\ nextId = 3

\* C15: update-coins for an existing username answers 200 and sets that
\* row's coins to the supplied value, negative ones too; the row's other
\* fields and every other row are unchanged.
C15_UpdateCoinsSets ==
    \A u \in Usernames, c \in -MaxDelta..MaxDelta :
        Taken(u)
        => Ensures(PostUpdateCoins(Some(u), Some(c)),
                   /\ res' = [op |-> "update-coins", status |-> 200,
                              body |-> [success |-> TRUE, coins |-> c]]
                   /\ players' = [players EXCEPT ![CHOOSE i \in Rows(u) : TRUE].coins = c])

\* C15 witness: update-coins just set a row with points to -1 coins while
\* another row keeps its 1 coin.
C15_Witness ==
    /\ res = [op |-> "update-coins", status |-> 200, body |-> [success |-> TRUE, coins |-> -1]]
    /\ \E i \in DOMAIN players, j \in DOMAIN players :
        /\ players[i].coins = -1 /\ players[i].points = 1
        /\ players[j].coins = 1

\* C18: update-coins for a non-empty username no row has answers 200 with
\* the supplied coins, changes no row and creates none; update-coins never
\* answers 404.
C18_UpdateCoinsNoRow ==
    /\ \A u \in Usernames \cup {LongName}, c \in -MaxDelta..MaxDelta :
        ~Taken(u)
        => Ensures(PostUpdateCoins(Some(u), Some(c)),
                   /\ res' = [op |-> "update-coins", status |-> 200,
                              body |-> [success |-> TRUE, coins |-> c]]
                   /\ players' = players
                   /\ nextId' = nextId)
    /\ res.op = "update-coins" => res.status # 404

\* C18 witness: update-coins just answered 200 for -1 coins while the one
\* row there is, of another username, has 0.
C18_Witness ==
    /\ res = [op |-> "update-coins", status |-> 200, body |-> [success |-> TRUE, coins |-> -1]]
    /\ \E i \in DOMAIN players : DOMAIN players = {i} /\ players[i].coins = 0

\* C16: a logout-others of an authenticated session answers 200 and changes
\* nothing: the session store, with the issuing session and every other
\* session of the account, and the table are as before.
C16_LogoutOthersNoOp ==
    \A r \in AllReqs :
        reqs[r].pc = "logout-others"
        => Ensures(LogoutOthers(r),
                   /\ res' = [op |-> "logout-others", status |-> 200,
                              body |-> [success |-> TRUE,
                                        message |-> "Other sessions logged out"]]
                   /\ store' = store /\ nextSid' = nextSid
                   /\ players' = players /\ nextId' = nextId)

\* C16 witness: logout-others just succeeded and two sessions are bound to
\* one account.
C16_Witness ==
    /\ res.op = "logout-others" /\ res.status = 200
    /\ \E s \in DOMAIN store, t \in DOMAIN store : s # t /\ store[s].id = store[t].id

\* The handlers that write or delete a row, at the step after their findOne.
MutationSteps ==
    {"update-profile:found", "upload-avatar:found", "change-password:found",
     "delete-account:found", "delete-account:destroyed"}

\* No row but that of `id` is written, deleted or created.
OthersUntouched(id) ==
    /\ DOMAIN players' \subseteq DOMAIN players
    /\ \A i \in DOMAIN players \ {id} : i \in DOMAIN players' /\ players'[i] = players[i]

\* C17: the row a gated mutation holds is the row whose id is bound in its
\* session, its lookup writes nothing, and its write or delete leaves every
\* row of another id as it was and creates none -- also for a session whose
\* account was deleted and whose username a newer account took.
C17_OwnRowOnly ==
    \A r \in AllReqs :
        /\ reqs[r].pc \in MutationSteps => reqs[r].player.id = Val(reqs[r].user).id
        /\ reqs[r].pc \in {"update-profile", "upload-avatar", "change-password",
                           "delete-account"}
           => Ensures(Find(r, reqs[r].pc), players' = players)
        /\ reqs[r].pc = "update-profile:found"
           => \A email \in Maybe({"b@x.io"}), displayName \in Maybe({"Bo"}),
                 theme \in Maybe({"dark"}), avatar \in Maybe({"pic"}) :
                Ensures(PostUpdateProfile(r, email, displayName, theme, avatar),
                        OthersUntouched(Val(reqs[r].user).id))
        /\ reqs[r].pc = "upload-avatar:found"
           => \A avatar \in Maybe({"pic"}) :
                Ensures(PostUploadAvatar(r, avatar), OthersUntouched(Val(reqs[r].user).id))
        /\ reqs[r].pc = "change-password:found"
           => \A cur \in Passwords, new \in Passwords :
                Ensures(PostChangePassword(r, Some(cur), Some(new), 2),
                        OthersUntouched(Val(reqs[r].user).id))
        /\ reqs[r].pc = "delete-account:found"
           => Ensures(DeleteAccountDestroy(r), OthersUntouched(Val(reqs[r].user).id))
        /\ reqs[r].pc = "delete-account:destroyed"
           => Ensures(DeleteAccountSession(r), players' = players)

\* C17 witness: a gated mutation was just answered 404 for a session whose
\* account is deleted while a newer account has its username.
C17_Witness ==
    /\ res.status = 404
    /\ res.op \in {"update-profile", "upload-avatar", "change-password", "delete-account"}
    /\ \E s \in DOMAIN store :
        /\ store[s].id \notin DOMAIN players
        /\ \E i \in DOMAIN players : players[i].username = store[s].username
====
